---- MODULE Spec2Model ----
(***************************************************************************)
(* The file backed xDS provisioner of apisix-mesh-agent                    *)
(* (pkg/provisioner/xds/file): the watch loop of Run, handleFileEvent, the *)
(* EDS/CDS merge of generateEventsFromDiscoveryResponseV3, generateEvents  *)
(* and the delivery goroutines that send on the consumer channel.          *)
(***************************************************************************)
EXTENDS Integers, Sequences, FiniteSets, TLC

\* ------------------------------------------------------------------ bounds
MaxRes == 2        \* resources in one discovery response (Spec, LiveSpec)
PassRes == 3       \* resources in one discovery response (PassSpec)
MaxConv == 2       \* target resources one conversion returns (PassSpec, LiveSpec)
LoopConv == 1      \* target resources one conversion returns (Spec)
MaxEvents == 3     \* files found at startup plus filesystem notifications
MaxParses == 2     \* responses decoded in one behaviour of Spec
MaxQueue == 1      \* notifications waiting in watcher.Events
LiveParses == 1    \* responses decoded in one behaviour of LiveSpec, StopSpec
StopRes == 1       \* resources in one discovery response (StopSpec)
MaxScan == 2       \* files handleInitialFileEvents finds (ScanSpec)

\* ---------------------------------------------------------------- universe
Sources == {"f1", "f2"}
UpstreamNames == {"svcA", "svcB"}
RouteNames == {"r1"}
NodeLists == {<<"n1">>}

RouteConfigurationUrl == "envoy.config.route.v3.RouteConfiguration"
ClusterUrl == "envoy.config.cluster.v3.Cluster"
ClusterLoadAssignmentUrl == "envoy.config.endpoint.v3.ClusterLoadAssignment"
UnknownUrl == "envoy.config.listener.v3.Listener"

EventAdd == "add"
EventUpdate == "update"
EventDelete == "delete"

\* Run hands Create, Write and Remove to handleFileEvent, which treats Create
\* as Write; the filesystem of the model reports Write, Remove and Chmod.
OpsHandled == {"CREATE", "WRITE", "REMOVE"}
Ops == {"WRITE", "REMOVE", "CHMOD"}

SeqsUpTo(S, n) == UNION {[1..k -> S] : k \in 0..n}

\* ------------------------------------------------------- target resources
Route(n) == [Kind |-> "route", Name |-> n, Nodes |-> <<>>]
Upstream(n, nodes) == [Kind |-> "upstream", Name |-> n, Nodes |-> nodes]

EmptyManifest == [Routes |-> <<>>, Upstreams |-> <<>>]

\* a *util.Manifest: nil, or a pointer to a Manifest
NilManifest == [nil |-> TRUE, m |-> EmptyManifest]
Ptr(m) == [nil |-> FALSE, m |-> m]

\* an entry of the map p.state: the key may be missing
NoEntry == [ok |-> FALSE, v |-> NilManifest]
Entry(p) == [ok |-> TRUE, v |-> p]

\* ------------------------------------------------- the discovery responses
\* A resource is its type URL and what the Adaptor converts its payload to.
ResourceSet(maxConv) ==
    [TypeUrl : {RouteConfigurationUrl},
     out : SeqsUpTo({Route(n) : n \in RouteNames}, maxConv)]
    \cup [TypeUrl : {ClusterUrl},
          out : SeqsUpTo({Upstream(n, <<>>) : n \in UpstreamNames}, maxConv)]
    \cup [TypeUrl : {ClusterLoadAssignmentUrl},
          out : SeqsUpTo({Upstream(n, l) : n \in UpstreamNames, l \in NodeLists}, maxConv)]
    \cup [TypeUrl : {UnknownUrl}, out : {<<>>}]

DiscoveryResponses(maxRes, maxConv) == SeqsUpTo(ResourceSet(maxConv), maxRes)

processRouteConfigurationV3(res) == res.out
processClusterV3(res) == res.out
processClusterLoadAssignmentV3(res) == res.out

\* --------------------------------------------------------------- Manifest
NamesOf(s) == {s[i].Name : i \in DOMAIN s}
Elems(s) == {s[i] : i \in DOMAIN s}

ManifestSize(m) == Len(m.Routes) + Len(m.Upstreams)

ManifestEvents(m, type) ==
    [i \in 1..ManifestSize(m) |->
        [Type |-> type,
         Object |-> IF i <= Len(m.Routes) THEN m.Routes[i]
                    ELSE m.Upstreams[i - Len(m.Routes)]]]

\* r1 is the old list, r2 the new one
CompareResources(r1, r2) ==
    LET IsAdded(x) == x.Name \notin NamesOf(r1)
        IsDeleted(x) == x.Name \notin NamesOf(r2)
        IsUpdated(x) == x.Name \in NamesOf(r1) /\ x \notin Elems(r1)
    IN  [added |-> SelectSeq(r2, IsAdded),
         deleted |-> SelectSeq(r1, IsDeleted),
         updated |-> SelectSeq(r2, IsUpdated)]

DiffFrom(m, m2) ==
    LET r == CompareResources(m.Routes, m2.Routes)
        u == CompareResources(m.Upstreams, m2.Upstreams)
    IN  [added |-> [Routes |-> r.added, Upstreams |-> u.added],
         deleted |-> [Routes |-> r.deleted, Upstreams |-> u.deleted],
         updated |-> [Routes |-> r.updated, Upstreams |-> u.updated]]

\* ------------------------------------------------------ the EDS/CDS merge
\* The loop over ups of the ClusterLoadAssignment case: i counts ups from 1,
\* slot is the number of entries kept so far. The inner loop over j reads
\* rm.Upstreams at the index of the outer loop, so it runs out of range when
\* rm.Upstreams is not empty and shorter than ups.
RECURSIVE MergeLoop(_, _, _, _)
MergeLoop(i, rmUpstreams, ups, slot) ==
    IF i > Len(ups)
    THEN [panic |-> FALSE, Upstreams |-> rmUpstreams, ups |-> SubSeq(ups, 1, slot)]
    ELSE IF Len(rmUpstreams) > 0 /\ i > Len(rmUpstreams)
    THEN [panic |-> TRUE, Upstreams |-> rmUpstreams, ups |-> <<>>]
    ELSE IF Len(rmUpstreams) > 0 /\ rmUpstreams[i].Name = ups[i].Name
    THEN MergeLoop(i + 1, [rmUpstreams EXCEPT ![i] = ups[i]], ups, slot)
    ELSE MergeLoop(i + 1, rmUpstreams, [ups EXCEPT ![slot + 1] = ups[i]], slot + 1)

\* ProcessResources leaving the loop at the first resource of unknown type URL
RECURSIVE ProcessResources_StopAtUnknown(_, _, _, _)
ProcessResources_StopAtUnknown(dr, k, rm, updatedUpstreams) ==
    IF k > Len(dr)
    THEN [panic |-> FALSE, rm |-> rm, updatedUpstreams |-> updatedUpstreams]
    ELSE IF dr[k].TypeUrl = RouteConfigurationUrl
    THEN ProcessResources_StopAtUnknown(dr, k + 1,
            [rm EXCEPT !.Routes = @ \o processRouteConfigurationV3(dr[k])],
            updatedUpstreams)
    ELSE IF dr[k].TypeUrl = ClusterUrl
    THEN ProcessResources_StopAtUnknown(dr, k + 1,
            [rm EXCEPT !.Upstreams = @ \o processClusterV3(dr[k])],
            updatedUpstreams)
    ELSE IF dr[k].TypeUrl = ClusterLoadAssignmentUrl
    THEN LET mg == MergeLoop(1, rm.Upstreams, processClusterLoadAssignmentV3(dr[k]), 0)
         IN  IF mg.panic
             THEN [panic |-> TRUE, rm |-> rm, updatedUpstreams |-> updatedUpstreams]
             ELSE ProcessResources_StopAtUnknown(dr, k + 1,
                     [rm EXCEPT !.Upstreams = mg.Upstreams],
                     updatedUpstreams \o mg.ups)
    ELSE [panic |-> FALSE, rm |-> rm, updatedUpstreams |-> updatedUpstreams]

\* The loop over dr.GetResources(): k counts the resources from 1.
RECURSIVE ProcessResources(_, _, _, _)
ProcessResources(dr, k, rm, updatedUpstreams) ==
    IF k > Len(dr)
    THEN [panic |-> FALSE, rm |-> rm, updatedUpstreams |-> updatedUpstreams]
    ELSE IF dr[k].TypeUrl = RouteConfigurationUrl
    THEN ProcessResources(dr, k + 1,
            [rm EXCEPT !.Routes = @ \o processRouteConfigurationV3(dr[k])],
            updatedUpstreams)
    ELSE IF dr[k].TypeUrl = ClusterUrl
    THEN ProcessResources(dr, k + 1,
            [rm EXCEPT !.Upstreams = @ \o processClusterV3(dr[k])],
            updatedUpstreams)
    ELSE IF dr[k].TypeUrl = ClusterLoadAssignmentUrl
    THEN LET mg == MergeLoop(1, rm.Upstreams, processClusterLoadAssignmentV3(dr[k]), 0)
         IN  IF mg.panic
             THEN [panic |-> TRUE, rm |-> rm, updatedUpstreams |-> updatedUpstreams]
             ELSE ProcessResources(dr, k + 1,
                     [rm EXCEPT !.Upstreams = mg.Upstreams],
                     updatedUpstreams \o mg.ups)
    ELSE ProcessResources(dr, k + 1, rm, updatedUpstreams)

\* --------------------------------------------------------- generateEvents
\* DiffEvents with the Update events appended before the Delete events
DiffEvents_UpdateFirst(added, deleted, updated) ==
    ManifestEvents(added, EventAdd)
        \o ManifestEvents(updated, EventUpdate)
        \o ManifestEvents(deleted, EventDelete)

\* The batch of one diff, in the order the code appends it.
DiffEvents(added, deleted, updated) ==
    ManifestEvents(added, EventAdd)
        \o ManifestEvents(deleted, EventDelete)
        \o ManifestEvents(updated, EventUpdate)

\* generateEvents storing the Manifest in a fresh map instead of in p.state
generateEvents_FreshState(st, filename, rmo, rm) ==
    LET d == IF rmo.nil
             THEN [added |-> rm.m, deleted |-> EmptyManifest, updated |-> EmptyManifest]
             ELSE IF rm.nil
             THEN [added |-> EmptyManifest, deleted |-> rmo.m, updated |-> EmptyManifest]
             ELSE DiffFrom(rmo.m, rm.m)
        count == ManifestSize(d.added) + ManifestSize(d.deleted) + ManifestSize(d.updated)
    IN  [state |-> [f \in DOMAIN st |-> IF f = filename THEN Entry(rm) ELSE NoEntry],
         events |-> IF count = 0 THEN <<>>
                    ELSE DiffEvents(d.added, d.deleted, d.updated)]

\* rmo and rm are *util.Manifest; the result is the new p.state and the batch.
generateEvents(st, filename, rmo, rm) ==
    LET d == IF rmo.nil
             THEN [added |-> rm.m, deleted |-> EmptyManifest, updated |-> EmptyManifest]
             ELSE IF rm.nil
             THEN [added |-> EmptyManifest, deleted |-> rmo.m, updated |-> EmptyManifest]
             ELSE DiffFrom(rmo.m, rm.m)
        count == ManifestSize(d.added) + ManifestSize(d.deleted) + ManifestSize(d.updated)
    IN  [state |-> [st EXCEPT ![filename] = Entry(rm)],
         events |-> IF count = 0 THEN <<>>
                    ELSE DiffEvents(d.added, d.deleted, d.updated)]

UpdateEvents(upss) == [i \in 1..Len(upss) |-> [Type |-> EventUpdate, Object |-> upss[i]]]

\* What the pass records for the EDS-only Upstreams of this response.
RecordEDS(eds, filename, updatedUpstreams) ==
    IF Len(updatedUpstreams) > 0
    THEN [eds EXCEPT ![filename] = @ \o updatedUpstreams]
    ELSE eds

generateEventsFromDiscoveryResponseV3(st, eds, filename, dr) ==
    LET p == ProcessResources(dr, 1, EmptyManifest, <<>>)
        g == generateEvents(st, filename, st[filename].v, Ptr(p.rm))
    IN  IF p.panic
        THEN [panic |-> TRUE, state |-> st, eds |-> eds, events |-> <<>>,
              rm |-> EmptyManifest, updatedUpstreams |-> <<>>]
        ELSE [panic |-> FALSE,
              state |-> g.state,
              eds |-> RecordEDS(eds, filename, p.updatedUpstreams),
              events |-> g.events \o UpdateEvents(p.updatedUpstreams),
              rm |-> p.rm,
              updatedUpstreams |-> p.updatedUpstreams]

\* The Upstreams a removed file supplied the nodes of: a clone with no nodes.
ResetEvents(upss) ==
    [i \in 1..Len(upss) |->
        [Type |-> EventUpdate, Object |-> [upss[i] EXCEPT !.Nodes = <<>>]]]

\* handleRemove without the test of ok
handleRemove_NoOkTest(st, eds, filename) ==
    LET g == generateEvents(st, filename, st[filename].v, NilManifest)
    IN  [panic |-> FALSE,
         state |-> g.state,
         eds |-> [eds EXCEPT ![filename] = <<>>],
         events |-> g.events \o ResetEvents(eds[filename]),
         rm |-> EmptyManifest, updatedUpstreams |-> <<>>]

\* The remove branch of handleFileEvent.
handleRemove(st, eds, filename) ==
    IF st[filename].ok
    THEN LET g == generateEvents(st, filename, st[filename].v, NilManifest)
         IN  [panic |-> FALSE,
              state |-> g.state,
              eds |-> [eds EXCEPT ![filename] = <<>>],
              events |-> g.events \o ResetEvents(eds[filename]),
              rm |-> EmptyManifest, updatedUpstreams |-> <<>>]
    ELSE [panic |-> FALSE, state |-> st, eds |-> eds, events |-> <<>>,
          rm |-> EmptyManifest, updatedUpstreams |-> <<>>]

\* handleFailure without its return: the zero DiscoveryResponse is processed
handleFailure_NoReturn(st, eds, filename) ==
    generateEventsFromDiscoveryResponseV3(st, eds, filename, <<>>)

\* A file read that fails, or bytes that do not decode: the handler returns.
handleFailure(st, eds, filename) ==
    [panic |-> FALSE, state |-> st, eds |-> eds, events |-> <<>>,
     rm |-> EmptyManifest, updatedUpstreams |-> <<>>]

\* What ioutil.ReadFile and protojson.Unmarshal give for a file.
FileContents(maxRes, maxConv) ==
    [err : {"read", "decode"}, dr : {<<>>}]
    \cup [err : {"none"}, dr : DiscoveryResponses(maxRes, maxConv)]

LoopContents == FileContents(MaxRes, LoopConv)
RichContents == FileContents(MaxRes, MaxConv)
PassContents == FileContents(PassRes, MaxConv)
StopContents == FileContents(StopRes, LoopConv)

handleFileEvent(st, eds, ev, content) ==
    IF ev.Op # "REMOVE"
    THEN IF content.err # "none"
         THEN handleFailure(st, eds, ev.Name)
         ELSE generateEventsFromDiscoveryResponseV3(st, eds, ev.Name, content.dr)
    ELSE handleRemove(st, eds, ev.Name)

\* Dispatch without the test of len(events)
Dispatch_Always(snd, id, events) == snd \cup {[id |-> id, events |-> events]}

\* go func() { p.evChan <- events }() when the batch is not empty
Dispatch(snd, id, events) ==
    IF Len(events) > 0 THEN snd \cup {[id |-> id, events |-> events]} ELSE snd

\* ------------------------------------------------------------ the program
VARIABLES
    pc,                       \* where Run is: start, initial, loop, stopcase,
                              \* exited, panicked
    initFiles,                \* files of handleInitialFileEvents still to handle
    stop,                     \* the stop channel is closed
    watcherEvents,            \* notifications waiting in watcher.Events
    nEvents,                  \* startup files and notifications so far
    state,                    \* p.state
    updatedUpstreamsFromEDS,  \* p.updatedUpstreamsFromEDS
    senders,                  \* goroutines at p.evChan <- events
    evChanClosed,             \* close(p.evChan) has run
    received,                 \* ids of the batches the consumer received, in order
    last                      \* the latest step of the loop, for the properties

vars == <<pc, initFiles, stop, watcherEvents, nEvents, state,
          updatedUpstreamsFromEDS, senders, evChanClosed, received, last>>

\* n: events Run has finished with; p: responses decoded; the rest describes
\* the latest call of handleFileEvent.
NoStep ==
    [n |-> 0, p |-> 0, op |-> "none", file |-> "", dr |-> <<>>, rmo |-> NoEntry,
     edsBefore |-> <<>>, rm |-> EmptyManifest, updatedUpstreams |-> <<>>,
     events |-> <<>>, panic |-> FALSE]

\* The files handleInitialFileEvents can find under the configured paths.
FileLists == {<<>>, <<"f1">>, <<"f2">>, <<"f1", "f2">>}

\* The same when configured paths may overlap (a directory and a file in it,
\* or one path given twice): every path appends the files under it.
ScanLists == SeqsUpTo(Sources, MaxScan)

Init ==
    /\ pc = "start"
    /\ initFiles = <<>>
    /\ stop = FALSE
    /\ watcherEvents = <<>>
    /\ nEvents = 0
    /\ state = [f \in Sources |-> NoEntry]
    /\ updatedUpstreamsFromEDS = [f \in Sources |-> <<>>]
    /\ senders = {}
    /\ evChanClosed = FALSE
    /\ received = <<>>
    /\ last = NoStep

\* One call of handleFileEvent and its dispatch, with what it leaves in `last`.
Handle(ev, content) ==
    LET r == handleFileEvent(state, updatedUpstreamsFromEDS, ev, content)
        kind == IF ev.Op = "REMOVE" THEN "remove"
                ELSE IF content.err # "none" THEN "fail" ELSE "write"
    IN  /\ last' = [n |-> IF r.panic THEN last.n ELSE last.n + 1,
                    p |-> IF kind = "write" THEN last.p + 1 ELSE last.p,
                    op |-> kind, file |-> ev.Name,
                    dr |-> content.dr, rmo |-> state[ev.Name],
                    edsBefore |-> updatedUpstreamsFromEDS[ev.Name],
                    rm |-> r.rm, updatedUpstreams |-> r.updatedUpstreams,
                    events |-> r.events, panic |-> r.panic]
        /\ state' = r.state
        /\ updatedUpstreamsFromEDS' = r.eds
        /\ senders' = Dispatch(senders, last.n + 1, r.events)
        /\ pc' = IF r.panic THEN "panicked" ELSE pc

\* handleInitialFileEvents: os.Stat or filepath.Walk fails, Run returns the error
StartupError ==
    /\ pc = "start"
    /\ pc' = "exited"
    /\ evChanClosed' = TRUE
    /\ UNCHANGED <<initFiles, stop, watcherEvents, nEvents, state,
                   updatedUpstreamsFromEDS, senders, received, last>>

\* handleInitialFileEvents: the files found, in the order they are handled
StartupScan(fs) ==
    /\ pc = "start"
    /\ Len(fs) <= MaxEvents
    /\ pc' = "initial"
    /\ initFiles' = fs
    /\ nEvents' = Len(fs)
    /\ UNCHANGED <<stop, watcherEvents, state, updatedUpstreamsFromEDS, senders,
                   evChanClosed, received, last>>

InitialPass(content) ==
    /\ pc = "initial"
    /\ initFiles # <<>>
    /\ Handle([Name |-> Head(initFiles), Op |-> "WRITE"], content)
    /\ initFiles' = Tail(initFiles)
    /\ UNCHANGED <<stop, watcherEvents, nEvents, evChanClosed, received>>

\* p.watcher.Add of every configured path
WatcherAdd ==
    /\ pc = "initial"
    /\ initFiles = <<>>
    /\ pc' = "loop"
    /\ UNCHANGED <<initFiles, stop, watcherEvents, nEvents, state,
                   updatedUpstreamsFromEDS, senders, evChanClosed, received, last>>

WatcherAddError ==
    /\ pc = "initial"
    /\ initFiles = <<>>
    /\ pc' = "exited"
    /\ evChanClosed' = TRUE
    /\ UNCHANGED <<initFiles, stop, watcherEvents, nEvents, state,
                   updatedUpstreamsFromEDS, senders, received, last>>

\* the filesystem reports a change of a watched path
FsNotify(f, op) ==
    /\ pc = "loop"
    /\ nEvents < MaxEvents
    /\ Len(watcherEvents) < MaxQueue
    /\ watcherEvents' = Append(watcherEvents, [Name |-> f, Op |-> op])
    /\ nEvents' = nEvents + 1
    /\ UNCHANGED <<pc, initFiles, stop, state, updatedUpstreamsFromEDS, senders,
                   evChanClosed, received, last>>

\* case ev := <-p.watcher.Events, a create or a write
LoopWrite(content) ==
    /\ pc = "loop"
    /\ watcherEvents # <<>>
    /\ Head(watcherEvents).Op \in OpsHandled \ {"REMOVE"}
    /\ Handle(Head(watcherEvents), content)
    /\ watcherEvents' = Tail(watcherEvents)
    /\ UNCHANGED <<initFiles, stop, nEvents, evChanClosed, received>>

\* case ev := <-p.watcher.Events, a remove
LoopRemove ==
    /\ pc = "loop"
    /\ watcherEvents # <<>>
    /\ Head(watcherEvents).Op = "REMOVE"
    /\ Handle(Head(watcherEvents), [err |-> "none", dr |-> <<>>])
    /\ watcherEvents' = Tail(watcherEvents)
    /\ UNCHANGED <<initFiles, stop, nEvents, evChanClosed, received>>

\* case ev := <-p.watcher.Events, any other operation: continue
LoopIgnore ==
    /\ pc = "loop"
    /\ watcherEvents # <<>>
    /\ Head(watcherEvents).Op \notin OpsHandled
    /\ watcherEvents' = Tail(watcherEvents)
    /\ last' = [NoStep EXCEPT !.n = last.n + 1, !.p = last.p, !.op = "ignored",
                              !.file = Head(watcherEvents).Name]
    /\ UNCHANGED <<pc, initFiles, stop, nEvents, state, updatedUpstreamsFromEDS,
                   senders, evChanClosed, received>>

\* case err := <-p.watcher.Errors: the error is logged
LoopError ==
    /\ pc = "loop"
    /\ last.op # "error"
    /\ last' = [NoStep EXCEPT !.n = last.n, !.p = last.p, !.op = "error"]
    /\ UNCHANGED <<pc, initFiles, stop, watcherEvents, nEvents, state,
                   updatedUpstreamsFromEDS, senders, evChanClosed, received>>

\* the caller closes the stop channel
Stop ==
    /\ ~stop
    /\ pc # "panicked"
    /\ stop' = TRUE
    /\ UNCHANGED <<pc, initFiles, watcherEvents, nEvents, state,
                   updatedUpstreamsFromEDS, senders, evChanClosed, received, last>>

\* the caller closes the stop channel while Run is parked in the select with
\* nothing ready: the select wakes up with the stop case chosen
StopWhileWaiting ==
    /\ pc = "loop"
    /\ ~stop
    /\ watcherEvents = <<>>
    /\ stop' = TRUE
    /\ pc' = "stopcase"
    /\ UNCHANGED <<initFiles, watcherEvents, nEvents, state,
                   updatedUpstreamsFromEDS, senders, evChanClosed, received, last>>

\* LoopStop without the deferred close(p.evChan)
LoopStop_NoClose ==
    /\ pc \in {"loop", "stopcase"}
    /\ stop
    /\ pc' = "exited"
    /\ UNCHANGED <<initFiles, stop, watcherEvents, nEvents, state,
                   updatedUpstreamsFromEDS, senders, evChanClosed, received, last>>

\* case <-stop: close the watcher, return nil; the deferred close(p.evChan)
LoopStop ==
    /\ pc \in {"loop", "stopcase"}
    /\ stop
    /\ pc' = "exited"
    /\ evChanClosed' = TRUE
    /\ UNCHANGED <<initFiles, stop, watcherEvents, nEvents, state,
                   updatedUpstreamsFromEDS, senders, received, last>>

\* Receive from a channel that hands the batches over in the order of dispatch
Receive_InOrder(s) ==
    /\ pc # "panicked"
    /\ ~evChanClosed
    /\ s \in senders
    /\ \A t \in senders : s.id <= t.id
    /\ senders' = senders \ {s}
    /\ received' = Append(received, s.id)
    /\ UNCHANGED <<pc, initFiles, stop, watcherEvents, nEvents, state,
                   updatedUpstreamsFromEDS, evChanClosed, last>>

\* the consumer receives from Channel(): one of the blocked senders completes
Receive(s) ==
    /\ pc # "panicked"
    /\ ~evChanClosed
    /\ s \in senders
    /\ senders' = senders \ {s}
    /\ received' = Append(received, s.id)
    /\ UNCHANGED <<pc, initFiles, stop, watcherEvents, nEvents, state,
                   updatedUpstreamsFromEDS, evChanClosed, last>>

\* a delivery goroutine at its send when the channel is closed: the send panics
SendOnClosed ==
    /\ pc # "panicked"
    /\ evChanClosed
    /\ senders # {}
    /\ pc' = "panicked"
    /\ UNCHANGED <<initFiles, stop, watcherEvents, nEvents, state,
                   updatedUpstreamsFromEDS, senders, evChanClosed, received, last>>

\* a response is decoded only while fewer than k have been
Budget(content, k) == content.err = "none" => last.p < k

\* ---------------------------------------------------------- specifications
\* Spec: the watch loop by itself, every event serviced in turn.
Next ==
    \/ \E fs \in FileLists : StartupScan(fs)
    \/ \E c \in LoopContents : Budget(c, MaxParses) /\ InitialPass(c)
    \/ WatcherAdd
    \/ \E f \in Sources, op \in Ops : FsNotify(f, op)
    \/ \E c \in LoopContents : Budget(c, MaxParses) /\ LoopWrite(c)
    \/ LoopRemove
    \/ LoopIgnore
    \/ LoopError

Spec == Init /\ [][Next]_vars

\* PassSpec: one file handled at startup, of any content.
PassNext ==
    \/ \E fs \in FileLists : Len(fs) = 1 /\ StartupScan(fs)
    \/ \E c \in PassContents : InitialPass(c)

PassSpec == Init /\ [][PassNext]_vars

\* LiveSpec: Run, the filesystem, the caller and the consumer together.
RunStep ==
    \/ \E c \in RichContents : Budget(c, LiveParses) /\ InitialPass(c)
    \/ WatcherAdd
    \/ WatcherAddError
    \/ \E c \in RichContents : Budget(c, LiveParses) /\ LoopWrite(c)
    \/ LoopRemove
    \/ LoopIgnore
    \/ LoopStop

LiveNext ==
    \/ StartupError
    \/ \E fs \in FileLists : StartupScan(fs)
    \/ \E c \in RichContents : Budget(c, LiveParses) /\ InitialPass(c)
    \/ WatcherAdd
    \/ WatcherAddError
    \/ \E f \in Sources, op \in Ops : FsNotify(f, op)
    \/ \E c \in RichContents : Budget(c, LiveParses) /\ LoopWrite(c)
    \/ LoopRemove
    \/ LoopIgnore
    \/ LoopError
    \/ Stop
    \/ StopWhileWaiting
    \/ LoopStop
    \/ \E s \in senders : Receive(s)
    \/ SendOnClosed

LiveSpec == Init /\ [][LiveNext]_vars /\ WF_vars(RunStep)

\* StopSpec: LiveSpec with files of at most StopRes resources.
StopRunStep ==
    \/ \E c \in StopContents : Budget(c, LiveParses) /\ InitialPass(c)
    \/ WatcherAdd
    \/ WatcherAddError
    \/ \E c \in StopContents : Budget(c, LiveParses) /\ LoopWrite(c)
    \/ LoopRemove
    \/ LoopIgnore
    \/ LoopStop

StopNext ==
    \/ StartupError
    \/ \E fs \in FileLists : StartupScan(fs)
    \/ \E c \in StopContents : Budget(c, LiveParses) /\ InitialPass(c)
    \/ WatcherAdd
    \/ WatcherAddError
    \/ \E f \in Sources, op \in Ops : FsNotify(f, op)
    \/ \E c \in StopContents : Budget(c, LiveParses) /\ LoopWrite(c)
    \/ LoopRemove
    \/ LoopIgnore
    \/ LoopError
    \/ Stop
    \/ StopWhileWaiting
    \/ LoopStop
    \/ \E s \in senders : Receive(s)
    \/ SendOnClosed

StopSpec == Init /\ [][StopNext]_vars /\ WF_vars(StopRunStep)

\* ScanSpec: the startup scan over any list of files, then the loop.
ScanNext ==
    \/ StartupError
    \/ \E fs \in ScanLists : StartupScan(fs)
    \/ \E c \in RichContents : Budget(c, LiveParses) /\ InitialPass(c)
    \/ WatcherAdd
    \/ WatcherAddError
    \/ \E f \in Sources, op \in Ops : FsNotify(f, op)
    \/ \E c \in RichContents : Budget(c, LiveParses) /\ LoopWrite(c)
    \/ LoopRemove
    \/ LoopIgnore

ScanSpec == Init /\ [][ScanNext]_vars

\* ------------------------------------------------------------- properties
\* The Upstreams the resources of one type URL of a response convert to.
DerivedFrom(dr, url) ==
    UNION {Elems(dr[k].out) : k \in {j \in DOMAIN dr : dr[j].TypeUrl = url}}

ClusterDerived(dr) == DerivedFrom(dr, ClusterUrl)
EDSDerived(dr) == DerivedFrom(dr, ClusterLoadAssignmentUrl)
NamesIn(S) == {x.Name : x \in S}

\* where the resources of one type URL convert to a target resource
Positions(dr, url) ==
    {<<k, i>> : k \in {j \in DOMAIN dr : dr[j].TypeUrl = url}, i \in 1..MaxConv}
        \cap {q \in (DOMAIN dr) \X (1..MaxConv) : q[2] <= Len(dr[q[1]].out)}

\* no Name is converted to more than once from the resources of one type URL
NoRepeatedName(dr, url) ==
    \A q1, q2 \in Positions(dr, url) :
        dr[q1[1]].out[q1[2]].Name = dr[q2[1]].out[q2[2]].Name => q1 = q2

WellFormed(dr) ==
    /\ NoRepeatedName(dr, RouteConfigurationUrl)
    /\ NoRepeatedName(dr, ClusterUrl)
    /\ NoRepeatedName(dr, ClusterLoadAssignmentUrl)

\* positions of the events of a batch that are about one resource name
EventsAbout(evs, kind, name) ==
    {i \in DOMAIN evs : evs[i].Object.Kind = kind /\ evs[i].Object.Name = name}

HasEvent(evs, type, obj) == [Type |-> type, Object |-> obj] \in Elems(evs)

\* the latest step is a pass over a decoded response that ran to its end
ParsedPass == last.op = "write" /\ ~last.panic

\* the entry of p.state holds a Manifest
HasManifest(e) == e.ok /\ ~e.v.nil

\* C1: when a cluster resource and a load-assignment resource of one response
\* convert to Upstreams of the same Name, the Manifest of the pass holds exactly
\* one Upstream of that Name, it has the load-assignment nodes, and the Name is
\* not in the EDS-only collection. Stated for the responses that convert to
\* no Name twice.
C1_MergeByName ==
    (ParsedPass /\ WellFormed(last.dr)) =>
        \A n \in NamesIn(ClusterDerived(last.dr)) \cap NamesIn(EDSDerived(last.dr)) :
            /\ Cardinality({i \in DOMAIN last.rm.Upstreams :
                                last.rm.Upstreams[i].Name = n}) = 1
            /\ \A i \in DOMAIN last.rm.Upstreams :
                    last.rm.Upstreams[i].Name = n
                        => last.rm.Upstreams[i] \in EDSDerived(last.dr)
            /\ n \notin NamesOf(last.updatedUpstreams)

\* C2: a decoded response with a load-assignment Upstream svcX and no cluster
\* Upstream svcX leaves svcX out of the Manifest stored for the file, puts
\* exactly one Update event for svcX with the load-assignment nodes in the
\* batch, and records svcX for the file in updatedUpstreamsFromEDS. Stated
\* for the responses that convert to no Name twice.
C2_EDSOnlyPropagation ==
    (last.op = "write" /\ WellFormed(last.dr)) =>
        \A n \in NamesIn(EDSDerived(last.dr)) \ NamesIn(ClusterDerived(last.dr)) :
            /\ ~last.panic
            /\ HasManifest(state[last.file])
            /\ n \notin NamesOf(state[last.file].v.m.Upstreams)
            /\ Cardinality(EventsAbout(last.events, "upstream", n)) = 1
            /\ \A i \in EventsAbout(last.events, "upstream", n) :
                    /\ last.events[i].Type = EventUpdate
                    /\ last.events[i].Object \in EDSDerived(last.dr)
            /\ n \in NamesOf(updatedUpstreamsFromEDS[last.file])

\* C3: after every pass over a decoded response the updatedUpstreamsFromEDS
\* entry of the file is exactly the EDS-only collection of that pass.
C3_EDSEntryReplaced ==
    ParsedPass => updatedUpstreamsFromEDS[last.file] = last.updatedUpstreams

\* C4: a remove of a file whose updatedUpstreamsFromEDS entry records svcX
\* puts an Update event for svcX with no nodes in the batch and no Delete
\* event for svcX; the Update event sent earlier for the recorded Upstream
\* still has its nodes, and the file has no entry afterwards.
C4_ResetOnRemove ==
    (last.op = "remove" /\ last.rmo.ok) =>
        /\ \A x \in Elems(last.edsBefore) :
                /\ HasEvent(last.events, EventUpdate, [x EXCEPT !.Nodes = <<>>])
                /\ \A i \in EventsAbout(last.events, "upstream", x.Name) :
                        last.events[i].Type # EventDelete
                /\ \E s \in senders : s.id < last.n /\ HasEvent(s.events, EventUpdate, x)
        /\ updatedUpstreamsFromEDS[last.file] = <<>>

\* the resources of one kind and Name in a list of a Manifest
Named(s, n) == {x \in Elems(s) : x.Name = n}

\* what C5 asks of the batch for one kind of resource: old and new are the
\* lists of that kind in the stored Manifest and in the Manifest of the pass
DiffBatch(evs, kind, old, new) ==
    \A n \in NamesOf(old) \cup NamesOf(new) :
        /\ n \notin NamesOf(new)
            => \A x \in Named(old, n) : HasEvent(evs, EventDelete, x)
        /\ n \notin NamesOf(old)
            => \A x \in Named(new, n) : HasEvent(evs, EventAdd, x)
        /\ (n \in NamesOf(old) /\ n \in NamesOf(new) /\ Named(old, n) # Named(new, n))
            => \E x \in Named(new, n) : HasEvent(evs, EventUpdate, x)
        /\ (n \in NamesOf(old) /\ Named(old, n) = Named(new, n))
            => EventsAbout(evs, kind, n) = {}

\* C5: the batch of a pass over a decoded response holds Add for every
\* resource when the file has no Manifest stored; otherwise Delete for a Name
\* only in the stored Manifest, Add for a Name only in the new one, Update for
\* a Name in both with differing content and no event for a Name in both with
\* identical content. The batch of a remove holds Delete for every resource
\* of the stored Manifest.
C5_DiffPerEvent ==
    /\ (ParsedPass /\ ~HasManifest(last.rmo)) =>
            \A x \in Elems(last.rm.Routes) \cup Elems(last.rm.Upstreams) :
                HasEvent(last.events, EventAdd, x)
    /\ (ParsedPass /\ HasManifest(last.rmo)) =>
            /\ DiffBatch(last.events, "route", last.rmo.v.m.Routes, last.rm.Routes)
            /\ DiffBatch(last.events, "upstream", last.rmo.v.m.Upstreams,
                         last.rm.Upstreams)
    /\ (last.op = "remove" /\ HasManifest(last.rmo)) =>
            \A x \in Elems(last.rmo.v.m.Routes) \cup Elems(last.rmo.v.m.Upstreams) :
                HasEvent(last.events, EventDelete, x)

\* a step is a call of handleFileEvent of the given kind
Handled(kind) == last'.op = kind /\ last' # last

Rank(type) == IF type = EventAdd THEN 1 ELSE IF type = EventDelete THEN 2 ELSE 3

Ordered(evs) ==
    \A i, j \in DOMAIN evs : i < j => Rank(evs[i].Type) <= Rank(evs[j].Type)

TypesOf(evs) == {evs[i].Type : i \in DOMAIN evs}

\* C6: in every batch dispatched, every Add event precedes every Delete event
\* and every Delete event precedes every Update event.
C6_BatchOrdering == \A s \in senders : Ordered(s.events)

\* a batch of a write with Add, Delete and Update, and the batch of a remove
\* with Delete and the Update events that reset nodes
C6_Witness ==
    /\ last.op = "remove"
    /\ last.edsBefore # <<>>
    /\ TypesOf(last.events) = {EventDelete, EventUpdate}
    /\ \E s \in senders : TypesOf(s.events) = {EventAdd, EventDelete, EventUpdate}

\* C7: a write whose file cannot be read or decoded leaves p.state and
\* p.updatedUpstreamsFromEDS as they were and dispatches nothing; the next
\* decoded response of the file is diffed against the entry from before.
C7_FailureAtomicity ==
    [][/\ Handled("fail") =>
            /\ state' = state
            /\ updatedUpstreamsFromEDS' = updatedUpstreamsFromEDS
            /\ senders' = senders
            /\ pc' = pc
       /\ (last.op = "fail" /\ Handled("write") /\ last'.file = last.file) =>
            last'.rmo = last.rmo]_vars

\* a failed write of a file with a Manifest stored and an entry recorded
C7_Witness ==
    /\ last.op = "fail"
    /\ HasManifest(state[last.file])
    /\ ManifestSize(state[last.file].v.m) > 0
    /\ updatedUpstreamsFromEDS[last.file] # <<>>

\* C8: a write whose Manifest equals the one stored for the file, with no
\* EDS-only Upstream in the pass, dispatches nothing.
C8_NoReannouncement ==
    (/\ ParsedPass
     /\ HasManifest(last.rmo)
     /\ last.rmo.v.m = last.rm
     /\ last.updatedUpstreams = <<>>) => \A s \in senders : s.id # last.n

\* a file with routes and upstreams written again with the same content
C8_Witness ==
    /\ ParsedPass
    /\ HasManifest(last.rmo)
    /\ last.rmo.v.m = last.rm
    /\ last.updatedUpstreams = <<>>
    /\ last.rm.Routes # <<>>
    /\ last.rm.Upstreams # <<>>
    /\ senders # {}

\* C9: a remove of a file with no entry in p.state, or with an entry emptied
\* by an earlier remove, dispatches nothing, leaves p.state and
\* p.updatedUpstreamsFromEDS as they were and leaves Run in its loop.
C9_NoopRemoval ==
    [][(Handled("remove") /\ ~HasManifest(state[last'.file])) =>
            /\ state' = state
            /\ updatedUpstreamsFromEDS' = updatedUpstreamsFromEDS
            /\ senders' = senders
            /\ pc' = "loop"]_vars

\* the second remove of a file, with batches of earlier events still at their send
C9_Witness ==
    /\ last.op = "remove"
    /\ last.rmo.ok
    /\ last.rmo.v.nil
    /\ senders # {}
    /\ pc = "loop"

\* C10: whatever the consumer does, a notification waiting in watcher.Events
\* when Run has finished with k events is in the end handled to completion
\* (Run has finished with more than k events), unless Run has returned.
C10_LoopNotBlocked ==
    \A k \in 0..MaxEvents :
        (pc = "loop" /\ watcherEvents # <<>> /\ last.n = k)
            ~> (last.n > k \/ pc = "exited")

\* C11: when two batches are at their send at once and the channel is open,
\* the consumer can receive the one dispatched later before the one dispatched
\* earlier.
C11_DeliveryOrderNotGuaranteed ==
    \A s, t \in senders :
        (s.id < t.id /\ ~evChanClosed /\ pc # "panicked") => ENABLED Receive(t)

\* the consumer has received a batch before one that was dispatched earlier
C11_Witness ==
    \E i, j \in DOMAIN received : i < j /\ received[i] > received[j]

\* what a step leaves alone when no notification is handled
NothingHandled ==
    UNCHANGED <<state, updatedUpstreamsFromEDS, senders, watcherEvents, last>>

\* Run leaves the stop case only by returning, the channel closed
StopCaseStep ==
    (pc = "stopcase" /\ pc' # pc) =>
        (pc' = "exited" /\ evChanClosed' /\ NothingHandled)

\* C12: once the stop channel is closed while Run is parked in its select, Run
\* leaves the loop by the stop case: it returns and the consumer channel is
\* closed, with nothing handled in between; and once Run has returned, p.state
\* and p.updatedUpstreamsFromEDS never change, no notification is taken and no
\* batch is dispatched.
C12_TerminationOnStop ==
    /\ (pc = "stopcase") ~> (pc = "exited" /\ evChanClosed)
    /\ [][StopCaseStep /\ (pc = "exited" => NothingHandled)]_vars

\* Run has returned by the stop case after a remove handled in the loop, with a
\* batch still at its send
C12_Witness ==
    /\ pc = "exited"
    /\ stop
    /\ evChanClosed
    /\ last.op = "remove"
    /\ senders # {}

\* a pass of the startup scan: for the first file still to handle, and that
\* file gets no second pass
ScanPassStep ==
    (pc = "initial" /\ initFiles' # initFiles) =>
        /\ initFiles # <<>>
        /\ initFiles' = Tail(initFiles)
        /\ last'.file = Head(initFiles)
        /\ last'.op \in {"write", "fail"}
        /\ Head(initFiles) \notin Elems(Tail(initFiles))

\* the watches are registered, or Run gives up registering them, only when
\* every file found has had its pass
ScanWatchStep ==
    (pc = "initial" /\ pc' \in {"loop", "exited"}) =>
        (initFiles = <<>> /\ last.n = nEvents)

\* a notification is taken from watcher.Events only in the loop
ScanLiveStep ==
    (Len(watcherEvents') < Len(watcherEvents)) => (pc = "loop" /\ initFiles = <<>>)

\* a path that cannot be enumerated: Run returns with no pass made
ScanErrorStep ==
    (pc = "start" /\ pc' = "exited") =>
        (last' = NoStep /\ UNCHANGED <<state, updatedUpstreamsFromEDS, senders>>)

\* C13: the startup scan makes one write pass for each regular file under the
\* configured paths and no second pass for any file, all of them before a
\* watch is registered and before a notification is taken; when a path cannot
\* be enumerated Run returns with no pass made.
C13_StartupScanCompleteness ==
    [][ScanPassStep /\ ScanWatchStep /\ ScanLiveStep /\ ScanErrorStep]_vars

\* a response without its resources of unrecognized type URL
Recognized(dr) ==
    LET Known(res) == res.TypeUrl # UnknownUrl
    IN  SelectSeq(dr, Known)

\* what handling the latest event started from
StateBefore == [state EXCEPT ![last.file] = last.rmo]
EDSBefore == [updatedUpstreamsFromEDS EXCEPT ![last.file] = last.edsBefore]

\* C14: for every decoded response the Manifest, the EDS-only collection, the
\* batch and the tables after the pass are those the response gives with its
\* resources of unrecognized type URL taken out.
C14_UnrecognizedSkipped ==
    last.op = "write" =>
        LET r == generateEventsFromDiscoveryResponseV3(
                    StateBefore, EDSBefore, last.file, Recognized(last.dr))
        IN  /\ r.panic = last.panic
            /\ r.rm = last.rm
            /\ r.updatedUpstreams = last.updatedUpstreams
            /\ r.events = last.events
            /\ r.state = state
            /\ r.eds = updatedUpstreamsFromEDS

\* an unrecognized resource first, then a cluster and a load assignment that
\* reach the Manifest and the EDS-only collection
C14_Witness ==
    /\ ParsedPass
    /\ Len(last.dr) = 3
    /\ last.dr[1].TypeUrl = UnknownUrl
    /\ last.rm.Upstreams # <<>>
    /\ last.updatedUpstreams # <<>>
    /\ state[last.file] = Entry(Ptr(last.rm))

\* C15: after a pass over a decoded response the entry of the file in p.state
\* is the Manifest of that pass; after a remove of a file that had an entry the
\* file has no Manifest stored; and a write of a file with no Manifest stored
\* announces every resource of its Manifest as Add (followed only by the
\* Update events of its EDS-only Upstreams).
C15_StateTracksManifest ==
    /\ last.op = "write" =>
            (~last.panic /\ state[last.file] = Entry(Ptr(last.rm)))
    /\ (last.op = "remove" /\ last.rmo.ok) => ~HasManifest(state[last.file])
    /\ (last.op = "write" /\ ~HasManifest(last.rmo)) =>
            last.events = ManifestEvents(last.rm, EventAdd)
                            \o UpdateEvents(last.updatedUpstreams)

\* no two resources of a list have the same Name
UniqueNames(s) == \A i, j \in DOMAIN s : s[i].Name = s[j].Name => i = j

\* C16: every Manifest held in p.state has no two Routes of the same Name and
\* no two Upstreams of the same Name.
C16_ManifestNamesUnique ==
    \A f \in Sources :
        HasManifest(state[f]) =>
            (UniqueNames(state[f].v.m.Routes) /\ UniqueNames(state[f].v.m.Upstreams))

\* C17: once the consumer channel is closed no goroutine is at a send on it,
\* and no send on the closed channel has happened.
C17_NoSendAfterClose ==
    evChanClosed => (senders = {} /\ pc # "panicked")

\* C18: a pass over a decoded response that converts to no Name twice reads
\* only valid positions of rm.Upstreams and ups, and ends with a Manifest
\* stored for the file.
C18_MergeNeverFaults ==
    (last.op = "write" /\ WellFormed(last.dr)) =>
        (pc # "panicked" /\ ~last.panic /\ HasManifest(state[last.file]))

\* a table with only the entry of one file
OwnOnly(table, f, none) == [t \in Sources |-> IF t = f THEN table[t] ELSE none]

\* the call of handleFileEvent that `l` describes, made on the tables st, eds
Replay(l, st, eds) ==
    IF l.op = "write" THEN generateEventsFromDiscoveryResponseV3(st, eds, l.file, l.dr)
    ELSE IF l.op = "remove" THEN handleRemove(st, eds, l.file)
    ELSE handleFailure(st, eds, l.file)

\* C19: handling a write or a remove of one file leaves the p.state entry and
\* the p.updatedUpstreamsFromEDS entry of every other file as they were, and
\* its batch is the one the same event gives when the tables hold nothing for
\* the other files.
C19_PerSourceIsolation ==
    [][(Handled("write") \/ Handled("remove") \/ Handled("fail")) =>
            /\ \A t \in Sources \ {last'.file} :
                    /\ state'[t] = state[t]
                    /\ updatedUpstreamsFromEDS'[t] = updatedUpstreamsFromEDS[t]
            /\ last'.events =
                    Replay(last', OwnOnly(state, last'.file, NoEntry),
                           OwnOnly(updatedUpstreamsFromEDS, last'.file, <<>>)).events]_vars

\* a remove of one file with a batch, while the other file has a Manifest
\* stored and Upstreams recorded
C19_Witness ==
    /\ last.op = "remove"
    /\ last.events # <<>>
    /\ \E t \in Sources \ {last.file} :
            /\ HasManifest(state[t])
            /\ ManifestSize(state[t].v.m) > 0
            /\ updatedUpstreamsFromEDS[t] # <<>>

\* C20: the batch of a remove never holds a Delete event and an Update event
\* that resets the nodes for the same Upstream Name.
C20_RemovalBatchConsistent ==
    last.op = "remove" =>
        \A i, j \in DOMAIN last.events :
            ~(/\ last.events[i].Type = EventDelete
              /\ last.events[j].Type = EventUpdate
              /\ last.events[i].Object.Kind = "upstream"
              /\ last.events[j].Object.Kind = "upstream"
              /\ last.events[j].Object.Nodes = <<>>
              /\ last.events[i].Object.Name = last.events[j].Object.Name)

====
